---------------------------- MODULE Spec2Model ----------------------------
(***************************************************************************)
(* A model of the text-rewriting core of src/App.py (class AIHumanizer):   *)
(* the synonym cache (get_synonyms), the sentence paraphraser              *)
(* (paraphrase_sentence), the structural variator                          *)
(* (vary_sentence_structure), the human-artifact injector                  *)
(* (add_human_elements) and the pipeline (humanize_text).                  *)
(*                                                                         *)
(* A Python str is a sequence of one-character strings, so that split,     *)
(* join, lower, capitalize and the two re.sub clean-ups are computed       *)
(* character by character.  Every random.random() gate is a BOOLEAN the    *)
(* action draws with \E; random.choice and random.randint draw from the    *)
(* ranges bounded by MaxPick below.                                        *)
(***************************************************************************)
EXTENDS Integers, Sequences, FiniteSets, TLC

VARIABLES
    hashSeed,       \* the process's string-hash seed: fixes the order of list(set)
    synonym_cache,  \* self.synonym_cache: cache key -> list of synonyms
    syn,            \* the last get_synonyms call: arguments, result, hit or miss
    firstRet,       \* history: word -> the list its first get_synonyms call returned
    para,           \* the paraphrase_sentence call in progress or last finished
    vary,           \* the last vary_sentence_structure call
    inj,            \* the last add_human_elements call
    hum             \* the humanize_text call in progress or last finished

vars == <<hashSeed, synonym_cache, syn, firstRet, para, vary, inj, hum>>

---------------------------------------------------------------------------
(* Bounds of the model. *)

\* random.choice(xs) draws among the first MaxPick entries of xs;
\* random.randint(a, b) draws among a .. a+MaxPick-1 and b.
MaxPick == 2

\* The hash seeds considered: [a, b] with a in 1..MaxSeed, b in 0..MaxSeed.
MaxSeed == 2

\* vary_sentence_structure is given 0 .. MaxSentences sentences.
MaxSentences == 3

\* add_human_elements is given texts whose word count is within Slack of a
\* threshold of the code (20 or 50).
Slack == 1

---------------------------------------------------------------------------
(* Python str operations, character by character. *)

Whitespace == {" ", "\t", "\n"}

UpperLetters ==
    <<"A","B","C","D","E","F","G","H","I","J","K","L","M",
      "N","O","P","Q","R","S","T","U","V","W","X","Y","Z">>

LowerLetters ==
    <<"a","b","c","d","e","f","g","h","i","j","k","l","m",
      "n","o","p","q","r","s","t","u","v","w","x","y","z">>

IndexIn(seq, x) == CHOOSE i \in 1..Len(seq) : seq[i] = x

InSeq(seq, x) == \E i \in 1..Len(seq) : seq[i] = x

\* upper-case letter -> lower-case letter, and back
LowerOf == [c \in {UpperLetters[i] : i \in 1..Len(UpperLetters)} |->
               LowerLetters[IndexIn(UpperLetters, c)]]
UpperOf == [c \in {LowerLetters[i] : i \in 1..Len(LowerLetters)} |->
               UpperLetters[IndexIn(LowerLetters, c)]]

\* str.lower() of one character
LowerChar(c) == IF c \in DOMAIN LowerOf THEN LowerOf[c] ELSE c

\* str.upper() of one character
UpperChar(c) == IF c \in DOMAIN UpperOf THEN UpperOf[c] ELSE c

\* s.lower()
Lower(s) == [i \in 1..Len(s) |-> LowerChar(s[i])]

\* s.capitalize(): first character upper-cased, every other one lower-cased
Capitalize(s) ==
    [i \in 1..Len(s) |-> IF i = 1 THEN UpperChar(s[i]) ELSE LowerChar(s[i])]

\* the indices 1..n of a str of length n, in order
Indices(s) == [i \in 1..Len(s) |-> i]

\* s.strip(): without its leading and trailing whitespace
Strip(s) ==
    LET solid == {i \in 1..Len(s) : s[i] \notin Whitespace}
    IN  IF solid = {} THEN <<>>
        ELSE SubSeq(s, CHOOSE i \in solid : \A j \in solid : i <= j,
                       CHOOSE i \in solid : \A j \in solid : j <= i)

\* s.rstrip()
RStrip(s) ==
    LET solid == {i \in 1..Len(s) : s[i] \notin Whitespace}
    IN  IF solid = {} THEN <<>>
        ELSE SubSeq(s, 1, CHOOSE i \in solid : \A j \in solid : j <= i)

\* s.split(): the maximal runs of non-whitespace characters, in order
Split(s) ==
    LET n      == Len(s)
        starts == SelectSeq(Indices(s), LAMBDA i :
                      s[i] \notin Whitespace /\ (i = 1 \/ s[i - 1] \in Whitespace))
        ends   == SelectSeq(Indices(s), LAMBDA i :
                      s[i] \notin Whitespace /\ (i = n \/ s[i + 1] \in Whitespace))
    IN  [k \in 1..Len(starts) |-> SubSeq(s, starts[k], ends[k])]

\* the concatenation of the str of a list, in order
RECURSIVE Concat(_)
Concat(parts) ==
    IF parts = <<>> THEN <<>>
    ELSE IF Len(parts) = 1 THEN parts[1]
    ELSE LET h == Len(parts) \div 2
         IN  Concat(SubSeq(parts, 1, h)) \o Concat(SubSeq(parts, h + 1, Len(parts)))

\* sep.join(parts)
Join(sep, parts) ==
    IF parts = <<>> THEN <<>>
    ELSE Concat([k \in 1..(2 * Len(parts) - 1) |->
                    IF k % 2 = 1 THEN parts[(k + 1) \div 2] ELSE sep])

\* list.insert(pos, x) for 0 <= pos <= len(list) (pos is Python's 0-based index)
ListInsert(list, pos, x) ==
    SubSeq(list, 1, pos) \o <<x>> \o SubSeq(list, pos + 1, Len(list))

\* needle in haystack, for two str: needle is a contiguous part of haystack
\* (the empty str is in every str)
IsSubstring(needle, haystack) ==
    \E k \in 0..(Len(haystack) - Len(needle)) :
        SubSeq(haystack, k + 1, k + Len(needle)) = needle

\* re.sub(r'\s+', ' ', s): every run of whitespace becomes one space, that is,
\* a whitespace character that follows another is dropped and the others
\* become spaces
CollapseWhitespace(s) ==
    LET kept == SelectSeq(Indices(s), LAMBDA i :
                    ~(s[i] \in Whitespace /\ i > 1 /\ s[i - 1] \in Whitespace))
    IN  [k \in 1..Len(kept) |-> IF s[kept[k]] \in Whitespace THEN " " ELSE s[kept[k]]]

\* the character class [,.!?;:] of the second clean-up pattern
CleanupPunct == {",", ".", "!", "?", ";", ":"}

\* re.sub(r'\s([,.!?;:])', r'\1', s): a whitespace character directly followed
\* by one of [,.!?;:] is dropped (two matches cannot overlap: a match ends with
\* a character that is no whitespace)
DropSpaceBeforePunct(s) ==
    LET n    == Len(s)
        kept == SelectSeq(Indices(s), LAMBDA i :
                    ~(s[i] \in Whitespace /\ i < n /\ s[i + 1] \in CleanupPunct))
    IN  [k \in 1..Len(kept) |-> s[kept[k]]]

\* string.punctuation; the grave accent, which a TLA+ string cannot hold, is the
\* atom "grave"
Punctuation == <<"!","\"","#","$","%","&","'","(",")","*","+",",","-",".","/",":",";","<","=",">","?","@","[","\\","]","^","_">> \o <<"grave">> \o <<"{","|","}","~">>

---------------------------------------------------------------------------
(* The draws of the random module. *)

\* random.choice(xs): one of xs (xs is never empty where the code calls it)
Choices(xs) == {xs[i] : i \in 1..(IF Len(xs) < MaxPick THEN Len(xs) ELSE MaxPick)}

\* the draw with place p (1..MaxPick) of random.choice(xs)
PickOf(xs, p) == xs[IF p <= Len(xs) THEN p ELSE Len(xs)]

\* the draw with place p (0..MaxPick) of random.randint(a, b), a <= b: the
\* places below MaxPick are a, a+1, ..., the place MaxPick is b
PickInt(a, b, p) == IF p >= MaxPick \/ a + p > b THEN b ELSE a + p

---------------------------------------------------------------------------
(* The external toolkit, as far as the core uses it. *)

\* stopwords.words('english'): the entries of the list the model's texts use
stop_words ==
    {<<"t","h","e">>, <<"a">>, <<"i","t">>, <<"w","a","s">>, <<"o","n">>, <<"h","a","v","e">>, <<"w","e">>, <<"i","n">>, <<"i","s">>, <<"a","n","d">>}

\* wordnet.synsets(word), flattened to the names of the lemmas of all senses, in
\* the provider's order.  WordNet looks the word up case-insensitively; lemma
\* names keep their capitals and join the words of a phrase with '_'.
WordNetLemmas(word) ==
    CASE Lower(word) = <<"c","a","t">> ->
            <<<<"c","a","t">>, <<"t","r","u","e","_","c","a","t">>, <<"C","a","t">>, <<"f","e","l","i","n","e">>, <<"f","e","l","i","d">>, <<"k","i","t","t","y">>,
              <<"p","u","s","s">>, <<"f","e","l","i","n","e">>, <<"m","o","g","g","y">>, <<"b","i","g","_","c","a","t">>, <<"t","o","m","c","a","t">>>>
      [] Lower(word) = <<"g","a","r","d","e","n">> -> <<<<"g","a","r","d","e","n">>, <<"G","a","r","d","e","n">>, <<"y","a","r","d">>, <<"p","l","o","t">>, <<"r","o","c","k","_","g","a","r","d","e","n">>>>
      [] Lower(word) = <<"h","a","v","e">> -> <<<<"h","a","v","e">>, <<"o","w","n">>, <<"p","o","s","s","e","s","s">>, <<"t","a","k","e","_","i","n">>>>
      [] Lower(word) = <<"s","a","t">> -> <<<<"S","a","t">>, <<"S","a","t","u","r","d","a","y">>, <<"s","i","t">>, <<"s","i","t","_","d","o","w","n">>, <<"s","i","t">>>>
      [] OTHER -> <<>>

\* the lower-cased one-word lemma names, in a fixed enumeration: the strings a
\* set of synonyms can hold
LemmaAtoms ==
    <<<<"c","a","t">>, <<"g","a","r","d","e","n">>, <<"h","a","v","e">>, <<"s","a","t">>, <<"f","e","l","i","n","e">>, <<"f","e","l","i","d">>, <<"k","i","t","t","y">>, <<"p","u","s","s">>,
      <<"m","o","g","g","y">>, <<"t","o","m","c","a","t">>, <<"y","a","r","d">>, <<"p","l","o","t">>, <<"o","w","n">>, <<"p","o","s","s","e","s","s">>, <<"s","a","t","u","r","d","a","y">>, <<"s","i","t">>>>

\* the seeds of the string hash: one is drawn when the process starts
HashSeeds == {[a |-> a, b |-> b] : a \in 1..MaxSeed, b \in 0..MaxSeed}

\* the place of synonym x in the iteration order of a set under hashSeed
HashRank(x) == (hashSeed.a * IndexIn(LemmaAtoms, x) + hashSeed.b) % (Len(LemmaAtoms) + 1)

\* list(S) for a set S of synonyms: its elements in the order of their hash
RECURSIVE SetToList(_)
SetToList(S) ==
    IF S = {} THEN <<>>
    ELSE LET x == CHOOSE y \in S : \A z \in S : HashRank(y) <= HashRank(z)
         IN  <<x>> \o SetToList(S \ {x})

---------------------------------------------------------------------------
(* get_synonyms *)

\* the pos argument: None (the default) or a str
NoPos == [given |-> FALSE, val |-> <<>>]
SomePos(s) == [given |-> TRUE, val |-> s]

\* f"{word}_{pos}"
cache_key(word, pos) == word \o <<"_">> \o (IF pos.given THEN pos.val ELSE <<"N","o","n","e">>)

\* lemma.name().replace('_', ' ')
ReplaceUnderscore(name) == [i \in 1..Len(name) |-> IF name[i] = "_" THEN " " ELSE name[i]]

\* a faulty variant of KeepsSynonym: the comparison with the word is case-sensitive
KeepsSynonym_CaseSensitive(synonym, word) ==
    synonym # word /\ ~InSeq(synonym, " ")

\* the filter of line 65: different from the word, and a single word
KeepsSynonym(synonym, word) ==
    Lower(synonym) # Lower(word) /\ ~InSeq(synonym, " ")

\* the set built by the loop of lines 60-66
SynonymSet(word) ==
    LET lemmas == WordNetLemmas(word)
        names  == {ReplaceUnderscore(lemmas[i]) : i \in 1..Len(lemmas)}
    IN  {Lower(n) : n \in {m \in names : KeepsSynonym(m, word)}}

\* the limit of line 68
SynonymLimit == 5

\* list(synonyms)[:5]
SynonymList(word) ==
    LET all == SetToList(SynonymSet(word))
    IN  SubSeq(all, 1, IF Len(all) < SynonymLimit THEN Len(all) ELSE SynonymLimit)

\* a faulty variant of get_synonyms: the cache is replaced by the new entry, not extended
get_synonyms_Evicting(cache, word, pos) ==
    LET key == cache_key(word, pos)
    IN  IF key \in DOMAIN cache
        THEN [ret |-> cache[key], cache |-> cache, hit |-> TRUE]
        ELSE LET result == SynonymList(word)
             IN  [ret |-> result, cache |-> [k \in {key} |-> result], hit |-> FALSE]

\* get_synonyms(word, pos) on a cache: what it returns, the cache it leaves, and
\* whether it was a hit
get_synonyms(cache, word, pos) ==
    LET key == cache_key(word, pos)
    IN  IF key \in DOMAIN cache
        THEN [ret |-> cache[key], cache |-> cache, hit |-> TRUE]
        ELSE LET result == SynonymList(word)
             IN  [ret |-> result,
                  cache |-> [k \in DOMAIN cache \cup {key} |->
                                IF k = key THEN result ELSE cache[k]],
                  hit |-> FALSE]

\* what a get_synonyms call leaves in syn and firstRet
SynRecord(word, pos, r) ==
    [called |-> TRUE, word |-> word, pos |-> pos, ret |-> r.ret, hit |-> r.hit]

FirstRetAfter(word, r) ==
    IF word \in DOMAIN firstRet THEN firstRet
    ELSE [w \in DOMAIN firstRet \cup {word} |-> IF w = word THEN r.ret ELSE firstRet[w]]

NoSyn == [called |-> FALSE, word |-> <<>>, pos |-> NoPos, ret |-> <<>>, hit |-> FALSE]

---------------------------------------------------------------------------
(* Idle values of the per-call variables. *)

NoPara ==
    [pc |-> "idle", caller |-> "none", sentence |-> <<>>, words |-> <<>>, i |-> 0,
     out |-> <<>>, main |-> <<>>, gate |-> <<>>, ret |-> <<>>]

NoVary ==
    [pc |-> "idle", caller |-> "none", sentences |-> <<>>, i |-> 0, out |-> <<>>,
     prepended |-> <<>>, merged |-> {}]

NoInj ==
    [pc |-> "idle", caller |-> "none", text |-> <<>>, ret |-> <<>>, gate |-> FALSE,
     fragment |-> FALSE, parenthetical |-> FALSE]

NoHum ==
    [pc |-> "idle", caller |-> "none", text |-> <<>>, sentences |-> <<>>, k |-> 0, paraphrased |-> <<>>,
     varied |-> <<>>, fragment |-> FALSE, ret |-> <<>>]

\* AIHumanizer.__init__, in a process whose hash seed is drawn at start
InitInstance ==
    /\ hashSeed \in HashSeeds
    /\ synonym_cache = <<>>
    /\ syn = NoSyn
    /\ firstRet = <<>>

\* A call from outside is made by a caller that keeps the result ("direct": the
\* frame of the finished call stays, and the instance is not called again) or by
\* one that drops it and goes on calling ("chained"); a call humanize_text
\* makes has the caller "humanize".

\* the frame a finished call leaves to its caller
Left(frame, none) ==
    IF frame.pc = "done" /\ frame.caller = "chained" THEN none ELSE frame

\* no call is in progress on the instance, and no result is kept
Idle == para.pc = "idle" /\ vary.pc = "idle" /\ inj.pc = "idle" /\ hum.pc = "idle"

---------------------------------------------------------------------------
(* paraphrase_sentence *)

\* word_tokenize(sentence): the words of the sentence in order, with each of
\* , . ! ? ; : a token of its own
word_tokenize(s) ==
    LET n      == Len(s)
        Breaks(c) == c \in Whitespace \/ c \in CleanupPunct
        starts == SelectSeq(Indices(s), LAMBDA i :
                      /\ s[i] \notin Whitespace
                      /\ (s[i] \in CleanupPunct \/ i = 1 \/ Breaks(s[i - 1])))
        ends   == SelectSeq(Indices(s), LAMBDA i :
                      /\ s[i] \notin Whitespace
                      /\ (s[i] \in CleanupPunct \/ i = n \/ Breaks(s[i + 1])))
    IN  [k \in 1..Len(starts) |-> SubSeq(s, starts[k], ends[k])]

fillers ==
    <<<<"a","c","t","u","a","l","l","y">>, <<"b","a","s","i","c","a","l","l","y">>, <<"e","s","s","e","n","t","i","a","l","l","y">>, <<"i","n"," ","f","a","c","t">>, <<"i","n","d","e","e","d">>,
      <<"s","p","e","c","i","f","i","c","a","l","l","y">>, <<"p","a","r","t","i","c","u","l","a","r","l","y">>, <<"g","e","n","e","r","a","l","l","y">>, <<"t","y","p","i","c","a","l","l","y">>>>

markers ==
    <<<<","," ","h","o","w","e","v","e","r",",">>, <<","," ","t","h","e","r","e","f","o","r","e",",">>, <<","," ","c","o","n","s","e","q","u","e","n","t","l","y",",">>,
      <<","," ","m","o","r","e","o","v","e","r",",">>, <<","," ","f","u","r","t","h","e","r","m","o","r","e",",">>, <<","," ","m","e","a","n","w","h","i","l","e",",">>>>

\* line 92: the token is passed through, with no draw
PassedThrough(word) == IsSubstring(Lower(word), Punctuation) \/ Len(word) <= 2

\* a faulty variant of IsStopword: the word is looked up as written, not lower-cased
IsStopword_CaseSensitive(word) == word \in stop_words

\* line 105: word.lower() in self.stop_words
IsStopword(word) == Lower(word) \in stop_words

\* lines 122-129: join, the two clean-ups, strip
Reconstruct(paraphrased_words) ==
    Strip(DropSpaceBeforePunct(CollapseWhitespace(Join(<<" ">>, paraphrased_words))))

\* lines 74-86: the two short-circuits, or the start of the loop
ParaphraseBegin(sentence, caller) ==
    LET words == word_tokenize(sentence)
        short == Len(Strip(sentence)) < 10 \/ Len(words) < 3
    IN  [pc |-> IF short THEN "done" ELSE "loop", caller |-> caller,
         sentence |-> sentence, words |-> IF short THEN <<>> ELSE words, i |-> 0,
         out |-> <<>>, main |-> <<>>, gate |-> <<>>,
         ret |-> IF short THEN sentence ELSE <<>>]

\* The draws of one iteration of the while loop: rFill, rSyn and rMark are the
\* three random.random() gates, filler and marker the two random.choice draws,
\* synPick the place of the random.choice among the synonyms.  A passed-through
\* token draws nothing, and a random.choice is drawn only behind its gate.
ParaDraws(word) ==
    LET all == [rFill : BOOLEAN, filler : Choices(fillers), rSyn : BOOLEAN,
                synPick : 1..MaxPick, rMark : BOOLEAN, marker : Choices(markers)]
    IN  {d \in all : /\ (~d.rFill => d.filler = fillers[1])
                     /\ (~d.rSyn => d.synPick = 1)
                     /\ (~d.rMark => d.marker = markers[1])
                     /\ (PassedThrough(word) => ~d.rFill /\ ~d.rSyn /\ ~d.rMark)}

\* lines 97-102: the filler, if its gate passes, something was emitted before
\* and the last thing emitted is no punctuation
WithFiller(out, d) ==
    IF d.rFill /\ Len(out) > 0 /\ ~IsSubstring(out[Len(out)], Punctuation)
    THEN Append(out, d.filler) ELSE out

\* lines 105-112: the token emitted for the word; synonyms is what
\* get_synonyms(word) returns
EmittedToken(word, d, synonyms) ==
    IF ~IsStopword(word) /\ d.rSyn /\ synonyms # <<>>
    THEN PickOf(synonyms, d.synPick) ELSE word

\* lines 115-118: the discourse marker, if its gate passes and the token is not
\* the last one
WithMarker(out, d, i, n) ==
    IF d.rMark /\ i < n - 1 THEN Append(out, d.marker) ELSE out

\* paraphrase_sentence(sentence), called on the instance from outside
ParaphraseCall(sentences, caller) ==
    /\ Idle
    /\ \E sentence \in sentences :
          para' = Left(ParaphraseBegin(sentence, caller), NoPara)
    /\ UNCHANGED <<hashSeed, synonym_cache, syn, firstRet, vary, inj, hum>>

\* The next iteration of the while loop (lines 87-120) of the call in progress,
\* on the token words[i], and after the last one the reconstruction and the
\* return (lines 122-129).  Each \E x \in {e} names the value e once.
ParaphraseStep ==
    /\ para.pc = "loop"
    /\ \E word \in {para.words[para.i + 1]} :
       \E d \in ParaDraws(word) :
       \E skip \in {PassedThrough(word)} :
       \E lookup \in {~skip /\ ~IsStopword(word) /\ d.rSyn} :
       \E r \in {IF lookup THEN get_synonyms(synonym_cache, word, NoPos)
                 ELSE [ret |-> <<>>, cache |-> synonym_cache, hit |-> FALSE]} :
       \E emitted \in {IF skip THEN word ELSE EmittedToken(word, d, r.ret)} :
       \E out \in {IF skip THEN Append(para.out, word)
                   ELSE WithMarker(Append(WithFiller(para.out, d), emitted), d,
                                   para.i, Len(para.words))} :
       \E last \in {para.i + 1 = Len(para.words)} :
       \E p \in {[para EXCEPT !.i = para.i + 1, !.out = out,
                              !.main = Append(para.main, emitted),
                              !.gate = Append(para.gate, d.rSyn),
                              !.pc = IF last THEN "done" ELSE "loop",
                              !.ret = IF last THEN Reconstruct(out) ELSE <<>>]} :
          /\ para' = Left(p, NoPara)
          /\ hum' = IF last /\ p.caller = "humanize"
                    THEN [hum EXCEPT !.paraphrased = Append(hum.paraphrased, p.ret),
                                     !.k = hum.k + 1]
                    ELSE hum
          /\ synonym_cache' = r.cache
          /\ syn' = IF lookup THEN SynRecord(word, NoPos, r) ELSE syn
          /\ firstRet' = IF lookup THEN FirstRetAfter(word, r) ELSE firstRet
    /\ UNCHANGED <<hashSeed, vary, inj>>

---------------------------------------------------------------------------
(* vary_sentence_structure *)

beginnings ==
    <<<<"A","d","d","i","t","i","o","n","a","l","l","y",","," ">>, <<"M","o","r","e","o","v","e","r",","," ">>, <<"F","u","r","t","h","e","r","m","o","r","e",","," ">>,
      <<"I","n"," ","a","d","d","i","t","i","o","n",","," ">>, <<"A","l","s","o",","," ">>, <<"B","e","s","i","d","e","s",","," ">>,
      <<"O","n"," ","t","h","e"," ","o","t","h","e","r"," ","h","a","n","d",","," ">>, <<"H","o","w","e","v","e","r",","," ">>, <<"N","e","v","e","r","t","h","e","l","e","s","s",","," ">>,
      <<"C","o","n","s","e","q","u","e","n","t","l","y",","," ">>, <<"T","h","e","r","e","f","o","r","e",","," ">>, <<"T","h","u","s",","," ">>>>

transition_words ==
    {<<"h","o","w","e","v","e","r">>, <<"t","h","e","r","e","f","o","r","e">>, <<"t","h","u","s">>, <<"c","o","n","s","e","q","u","e","n","t","l","y">>,
     <<"m","o","r","e","o","v","e","r">>, <<"f","u","r","t","h","e","r","m","o","r","e">>, <<"a","d","d","i","t","i","o","n","a","l","l","y">>, <<"a","l","s","o">>}

\* line 151: sentence.split()[0].lower() if sentence.split() else ''
first_word(sentence) ==
    IF Split(sentence) # <<>> THEN Lower(Split(sentence)[1]) ELSE <<>>

\* line 156: sentence.lower().capitalize()
ReCase(sentence) == Capitalize(Lower(sentence))

\* the word limit of lines 159-160
MergeMaxWords == 15

\* a faulty variant of MergeAllowed: the length of the next sentence is not tested
MergeAllowed_CurrentOnly(sentence, next) ==
    Len(Split(sentence)) < MergeMaxWords

\* lines 159-160: both the current sentence (as it is now) and the next one have
\* fewer than 15 words
MergeAllowed(sentence, next) ==
    Len(Split(sentence)) < MergeMaxWords /\ Len(Split(next)) < MergeMaxWords

\* The body of the for loop (lines 135-166) for sentences[i] (i is 0-based as in
\* the code).  rBegin is the 0.4 gate, beginning the random.choice, rMerge the
\* 0.2 gate.  The continue of line 164 ends this iteration only: the loop goes
\* on with i + 1.
VaryIteration(v, rBegin, beginning, rMerge) ==
    LET n        == Len(v.sentences)
        original == v.sentences[v.i + 1]
        blank    == Strip(original) = <<>>
        prepend  == ~blank /\ v.i > 0 /\ rBegin /\ first_word(original) \notin transition_words
        sentence == IF prepend THEN beginning \o ReCase(original) ELSE original
        merge    == /\ ~blank
                    /\ v.i < n - 1
                    /\ MergeAllowed(sentence, v.sentences[v.i + 2])
                    /\ rMerge
        entry    == IF merge THEN sentence \o <<" ">> \o Lower(v.sentences[v.i + 2])
                    ELSE sentence
    IN  [v EXCEPT !.i = v.i + 1,
                  !.out = Append(v.out, entry),
                  !.prepended = IF prepend
                                THEN [k \in DOMAIN v.prepended \cup {v.i + 1} |->
                                        IF k = v.i + 1
                                        THEN [phrase |-> beginning, result |-> sentence]
                                        ELSE v.prepended[k]]
                                ELSE v.prepended,
                  !.merged = IF merge THEN v.merged \cup {v.i + 1} ELSE v.merged,
                  !.pc = IF v.i + 1 = n THEN "done" ELSE "loop"]

\* line 133 and the start of the loop
VaryBegin(sentences, caller) ==
    [pc |-> IF sentences = <<>> THEN "done" ELSE "loop", caller |-> caller,
     sentences |-> sentences, i |-> 0, out |-> <<>>, prepended |-> <<>>, merged |-> {}]

\* vary_sentence_structure(sentences), called on the instance from outside
VaryCall(inputs, caller) ==
    /\ Idle
    /\ \E sentences \in inputs : vary' = Left(VaryBegin(sentences, caller), NoVary)
    /\ UNCHANGED <<hashSeed, synonym_cache, syn, firstRet, para, inj, hum>>

\* the next iteration of the loop of the vary_sentence_structure call in progress
VaryStep ==
    /\ vary.pc = "loop"
    /\ \E rBegin \in BOOLEAN, rMerge \in BOOLEAN, beginning \in Choices(beginnings) :
          \* random.choice is drawn only behind the 0.4 gate
          /\ ~rBegin => beginning = beginnings[1]
          /\ \E v \in {VaryIteration(vary, rBegin, beginning, rMerge)} :
                 /\ vary' = Left(v, NoVary)
                 /\ hum' = IF v.pc = "done" /\ v.caller = "humanize"
                           THEN [hum EXCEPT !.varied = v.out, !.pc = "inject"]
                           ELSE hum
    /\ UNCHANGED <<hashSeed, synonym_cache, syn, firstRet, para, inj>>

---------------------------------------------------------------------------
(* add_human_elements *)

fragments == <<<<"y","o","u"," ","k","n","o","w">>, <<"I"," ","m","e","a","n">>, <<"s","o","r","t"," ","o","f">>, <<"k","i","n","d"," ","o","f">>, <<"l","i","k","e">>, <<"w","e","l","l">>>>

\* the word counts of lines 174 and 182
HumanElementsMinWords == 20
RedundancyMinWords == 50

\* a faulty variant of HumanElementsApply: texts of exactly 20 words pass too
HumanElementsApply_Inclusive(words, rGate) ==
    Len(words) >= HumanElementsMinWords /\ rGate

\* line 174: len(words) > 20 and random.random() < 0.8
HumanElementsApply(words, rGate) ==
    Len(words) > HumanElementsMinWords /\ rGate

\* a faulty variant of RedundancyApplies: the word count is not tested
RedundancyApplies_AnyLength(words, rRed) == rRed

\* line 182: random.random() < 0.15 and len(words) > 50, on the word list as it
\* is then (the fragment of line 179, if inserted, is one entry of it)
RedundancyApplies(words, rRed) ==
    rRed /\ Len(words) > RedundancyMinWords

\* line 184: [w for w in words if len(w) > 5 and w.lower() not in self.stop_words]
key_words(words) ==
    SelectSeq(words, LAMBDA w : Len(w) > 5 /\ Lower(w) \notin stop_words)

\* The draws of one add_human_elements call: rGate, rFrag and rRed are the three
\* random.random() gates, fragPos and parenPos the places of the two
\* random.randint draws, fragment, conceptPick and synPick the random.choice
\* draws.  A draw is made only behind its gate.
AllInjectDraws ==
    LET all == [rGate : BOOLEAN, rFrag : BOOLEAN, rRed : BOOLEAN, fragPos : 0..MaxPick,
                parenPos : 0..MaxPick, fragment : Choices(fragments),
                conceptPick : 1..MaxPick, synPick : 1..MaxPick]
    IN  {d \in all : /\ (~d.rGate => ~d.rFrag /\ ~d.rRed)
                     /\ (~d.rFrag => d.fragPos = 0 /\ d.fragment = fragments[1])
                     /\ (~d.rRed => d.conceptPick = 1 /\ d.synPick = 1 /\ d.parenPos = 0)}

\* the draws of a call on a text: behind the test of line 174 nothing is drawn
\* for a text that fails it
InjectDraws(text) ==
    {d \in AllInjectDraws :
        ~HumanElementsApply(Split(text), TRUE) => ~d.rFrag /\ ~d.rRed}

Max(a, b) == IF a > b THEN a ELSE b
Min(a, b) == IF a < b THEN a ELSE b

\* add_human_elements(text) on a cache, under the draws d
add_human_elements(text, cache, d) ==
    LET words0   == Split(text)
        inside   == HumanElementsApply(words0, d.rGate)
        addFrag  == inside /\ d.rFrag
        words1   == IF addFrag
                    THEN ListInsert(words0,
                                    PickInt(1, Max(1, Len(words0) - 2), d.fragPos),
                                    <<","," ">> \o d.fragment)
                    ELSE words0
        keys     == key_words(words1)
        lookup   == inside /\ RedundancyApplies(words1, d.rRed) /\ keys # <<>>
        concept  == IF lookup THEN PickOf(keys, d.conceptPick) ELSE <<>>
        r        == get_synonyms(cache, concept, NoPos)
        synonyms == r.ret
        insert_pos == Min(Len(words1),
                          PickInt(Len(words1) \div 2, Len(words1) - 1, d.parenPos))
        addParen == lookup /\ synonyms # <<>> /\ insert_pos < Len(words1)
        words2   == IF addParen
                    THEN ListInsert(words1, insert_pos,
                                    <<"(","o","r"," ">> \o PickOf(synonyms, d.synPick) \o <<")">>)
                    ELSE words1
    IN  [ret |-> Join(<<" ">>, words2), lookup |-> lookup, concept |-> concept, r |-> r,
         fragment |-> addFrag, parenthetical |-> addParen]

\* add_human_elements(text), called on the instance from outside
InjectCall(texts, caller) ==
    /\ Idle
    /\ \E text \in texts :
       \E d \in InjectDraws(text) :
       \E o \in {add_human_elements(text, synonym_cache, d)} :
              /\ inj' = Left([pc |-> "done", caller |-> caller, text |-> text,
                              ret |-> o.ret, gate |-> d.rGate, fragment |-> o.fragment,
                              parenthetical |-> o.parenthetical], NoInj)
              /\ IF o.lookup
                 THEN /\ synonym_cache' = o.r.cache
                      /\ syn' = SynRecord(o.concept, NoPos, o.r)
                      /\ firstRet' = FirstRetAfter(o.concept, o.r)
                 ELSE UNCHANGED <<synonym_cache, syn, firstRet>>
    /\ UNCHANGED <<hashSeed, para, vary, hum>>

---------------------------------------------------------------------------
(* humanize_text *)

SentenceEnd == {".", "!", "?"}

\* sent_tokenize(text): a sentence ends with one of . ! ? that is followed by
\* whitespace or ends the text, and the next one starts at the next character
\* that is no whitespace; the last sentence ends with the text's last such
\* character
sent_tokenize(s) ==
    LET n      == Len(s)
        solid  == {i \in 1..n : s[i] \notin Whitespace}
        Closes(i) == s[i] \in SentenceEnd /\ (i = n \/ s[i + 1] \in Whitespace)
        Before(i) == {j \in solid : j < i}
        starts == SelectSeq(Indices(s), LAMBDA i :
                      /\ i \in solid
                      /\ (Before(i) = {} \/
                          Closes(CHOOSE j \in Before(i) : \A k \in Before(i) : k <= j)))
        ends   == SelectSeq(Indices(s), LAMBDA i :
                      i \in solid /\ (Closes(i) \/ \A j \in solid : j <= i))
    IN  [k \in 1..Len(starts) |-> SubSeq(s, starts[k], ends[k])]

\* lines 197-201: blank text is returned as it is; other text is split into
\* its sentences
HumanizeBegin(text, caller) ==
    IF Strip(text) = <<>>
    THEN [NoHum EXCEPT !.pc = "done", !.caller = caller, !.text = text, !.ret = text]
    ELSE [NoHum EXCEPT !.pc = "paraphrase", !.caller = caller, !.text = text,
                       !.sentences = sent_tokenize(text), !.k = 1]

\* lines 219-220: re.sub(r'\s+', ' ', ...) and strip
FinalCleanup(text) == Strip(CollapseWhitespace(text))

\* humanize_text(text), called on the instance from outside
HumanizeCall(texts, caller) ==
    /\ Idle
    /\ \E text \in texts : hum' = Left(HumanizeBegin(text, caller), NoHum)
    /\ UNCHANGED <<hashSeed, synonym_cache, syn, firstRet, para, vary, inj>>

\* lines 205-207: the call of paraphrase_sentence on the next sentence
HumanizeParaphrase ==
    /\ hum.pc = "paraphrase" /\ para.pc # "loop"
    /\ hum.k <= Len(hum.sentences)
    /\ \E p \in {ParaphraseBegin(hum.sentences[hum.k], "humanize")} :
          /\ para' = p
          /\ hum' = IF p.pc = "done"
                    THEN [hum EXCEPT !.paraphrased = Append(hum.paraphrased, p.ret),
                                     !.k = hum.k + 1]
                    ELSE hum
    /\ UNCHANGED <<hashSeed, synonym_cache, syn, firstRet, vary, inj>>

\* line 210: the call of vary_sentence_structure on the paraphrased sentences
HumanizeVary ==
    /\ hum.pc = "paraphrase" /\ para.pc # "loop"
    /\ hum.k > Len(hum.sentences)
    /\ \E v \in {VaryBegin(hum.paraphrased, "humanize")} :
          /\ vary' = v
          /\ hum' = IF v.pc = "done" THEN [hum EXCEPT !.varied = v.out, !.pc = "inject"]
                    ELSE [hum EXCEPT !.pc = "vary"]
    /\ UNCHANGED <<hashSeed, synonym_cache, syn, firstRet, para, inj>>

\* lines 213-222: join, add_human_elements, the final clean-up
HumanizeFinish ==
    /\ hum.pc = "inject"
    /\ \E humanized_text \in {Join(<<" ">>, hum.varied)} :
       \E d \in InjectDraws(humanized_text) :
       \E o \in {add_human_elements(humanized_text, synonym_cache, d)} :
       \E kept \in {hum.caller # "chained"} :
              /\ inj' = IF kept
                        THEN [pc |-> "done", caller |-> "humanize",
                              text |-> humanized_text, ret |-> o.ret, gate |-> d.rGate,
                              fragment |-> o.fragment, parenthetical |-> o.parenthetical]
                        ELSE NoInj
              /\ hum' = IF kept
                        THEN [hum EXCEPT !.pc = "done", !.fragment = o.fragment,
                                         !.ret = FinalCleanup(o.ret)]
                        ELSE NoHum
              /\ para' = IF kept THEN para ELSE NoPara
              /\ vary' = IF kept THEN vary ELSE NoVary
              /\ IF o.lookup
                 THEN /\ synonym_cache' = o.r.cache
                      /\ syn' = SynRecord(o.concept, NoPos, o.r)
                      /\ firstRet' = FirstRetAfter(o.concept, o.r)
                 ELSE UNCHANGED <<synonym_cache, syn, firstRet>>
    /\ UNCHANGED hashSeed

---------------------------------------------------------------------------
(* The calls made on the instance, and the specifications. *)

\* the pos hints get_synonyms is called with
PosHints == {NoPos, SomePos(<<"n">>)}

\* one call get_synonyms(word, pos) from outside
SynonymsOfCall(words) ==
    /\ Idle
    /\ \E word \in words, pos \in PosHints :
       \E r \in {get_synonyms(synonym_cache, word, pos)} :
              /\ synonym_cache' = r.cache
              /\ syn' = SynRecord(word, pos, r)
              /\ firstRet' = FirstRetAfter(word, r)
    /\ UNCHANGED <<hashSeed, para, vary, inj, hum>>

\* a new instance, with no call made on it yet
Init ==
    /\ InitInstance
    /\ para = NoPara /\ vary = NoVary /\ inj = NoInj /\ hum = NoHum

\* n words "a", separated by single spaces
Words(n) == Join(<<" ">>, [k \in 1..n |-> <<"a">>])

\* A text of n words: "garden", "zebras" and then "a".  A plain text separates
\* them by single spaces; a ragged one starts with a space, has two spaces
\* after its first word, a newline after its second and a tab at its end.
TextWord(k) == IF k = 1 THEN <<"g","a","r","d","e","n">> ELSE IF k = 2 THEN <<"z","e","b","r","a","s">> ELSE <<"a">>

Separator(k, ragged) ==
    IF ragged /\ k = 1 THEN <<" "," ">> ELSE IF ragged /\ k = 2 THEN <<"\n">> ELSE <<" ">>

MakeText(n, ragged) ==
    (IF ragged THEN <<" ">> ELSE <<>>)
    \o Concat([k \in 1..n |-> TextWord(k) \o (IF k < n THEN Separator(k, ragged) ELSE <<>>)])
    \o (IF ragged THEN <<"\t">> ELSE <<>>)

(* get_synonyms alone *)

LookupWords == {<<"c","a","t">>, <<"C","a","t">>, <<"h","a","v","e">>, <<"z","e","b","r","a">>}

NextSyn == SynonymsOfCall(LookupWords)

SpecSyn == Init /\ [][NextSyn]_vars

(* paraphrase_sentence alone *)

ParaSentences ==
    {<<"T","h","e"," ","c","a","t"," ","i","s"," ","o","n"," ","i","t",".">>, <<"W","e"," ","H","A","V","E"," ","a"," ","g","a","r","d","e","n",".">>, <<"H","i"," ",","," ","y","o">>, <<"W","o","n","d","e","r","f","u","l"," ","d","a","y">>}

NextPara == ParaphraseCall(ParaSentences, "direct") \/ ParaphraseStep

SpecPara == Init /\ [][NextPara]_vars

\* a new instance in a process with one given hash seed, for the calls whose
\* outcome does not depend on the order of list(synonyms)
InitOneSeed ==
    /\ Init
    /\ hashSeed = [a |-> 1, b |-> 0]

(* vary_sentence_structure alone *)

SentencePool ==
    {<<"W","e"," ","m","e","t"," ","B","o","b",".">>, <<"H","o","w","e","v","e","r",","," ","i","t"," ","r","a","i","n","e","d",".">>, <<"t","h","u","s"," ","i","t"," ","i","s">>, <<" "," ">>,
     Words(MergeMaxWords), Words(MergeMaxWords - 1)}

VaryInputs == UNION {[1..n -> SentencePool] : n \in 0..MaxSentences}

NextVary == VaryCall(VaryInputs, "direct") \/ VaryStep

SpecVary == InitOneSeed /\ [][NextVary]_vars

(* add_human_elements alone *)

InjectTexts ==
    {MakeText(c + d, ragged) : c \in {HumanElementsMinWords, RedundancyMinWords},
                               d \in (0 - Slack)..Slack, ragged \in BOOLEAN}

NextInject == InjectCall(InjectTexts, "direct")

SpecInject == Init /\ [][NextInject]_vars

(* humanize_text alone *)

HumanizeTexts ==
    {<<>>, <<" "," ">>, <<"H","i"," ",","," ","y","o">>, <<"W","e"," ","m","e","t"," ","i","t","."," ","H","i","!">>,
     Words(HumanElementsMinWords) \o <<" ","u",".">>}

NextHumanize ==
    \/ HumanizeCall(HumanizeTexts, "direct")
    \/ HumanizeParaphrase
    \/ ParaphraseStep
    \/ HumanizeVary
    \/ VaryStep
    \/ HumanizeFinish

SpecHumanize == Init /\ [][NextHumanize]_vars

(* any sequence of calls on one instance *)

CacheWords == {<<"c","a","t">>}
CacheSentences == {<<"I","s"," ","i","t"," ","a"," ","c","a","t">>}
CacheTexts == {<<"g","a","r","d","e","n"," ">> \o Words(RedundancyMinWords)}
CacheHumanizeTexts == {<<"I","t"," ","i","s"," ","a"," ","c","a","t">>}

NextCache ==
    \/ SynonymsOfCall(CacheWords)
    \/ ParaphraseCall(CacheSentences, "chained")
    \/ ParaphraseStep
    \/ InjectCall(CacheTexts, "chained")
    \/ HumanizeCall(CacheHumanizeTexts, "chained")
    \/ HumanizeParaphrase
    \/ HumanizeVary
    \/ VaryStep
    \/ HumanizeFinish

SpecCache == InitOneSeed /\ [][NextCache]_vars

---------------------------------------------------------------------------
(* The claims. *)

\* the text has a parenthetical restatement "(or <synonym>)"
HasParenthetical(text) == InSeq(Split(text), <<"(","o","r">>)

\* the first word of the sentence, lower-cased, up to its first character that
\* is no letter
LeadingWord(sentence) ==
    LET w == first_word(sentence)
        stops == SelectSeq(Indices(w), LAMBDA i : ~InSeq(LowerLetters, w[i]))
    IN  IF stops = <<>> THEN w ELSE SubSeq(w, 1, stops[1] - 1)

\* C1: when vary_sentence_structure has returned, its output has one entry
\* fewer than its input for every merge it made: the sentence merged into the
\* one before it is not emitted again.
C1_MergeConsumesNext ==
    vary.pc = "done" =>
        Len(vary.out) = Len(vary.sentences) - Cardinality(vary.merged)

\* C2: what humanize_text returns for a text that is not blank has no space
\* directly before a comma, period, exclamation mark, question mark, colon or
\* semicolon.
C2_NoSpaceBeforePunctuation ==
    hum.pc = "done" /\ Strip(hum.text) # <<>> =>
        \A i \in 1..(Len(hum.ret) - 1) :
            ~(hum.ret[i] = " " /\ hum.ret[i + 1] \in {",", ".", "!", "?", ":", ";"})

\* C3: in any sequence of get_synonyms, paraphrase_sentence, add_human_elements
\* and humanize_text calls on one instance, a step never removes or changes an
\* entry of the synonym cache, and every get_synonyms call returns the list the
\* first call with the same word returned.
C3_CacheAdditive ==
    /\ [][\A k \in DOMAIN synonym_cache :
              k \in DOMAIN synonym_cache' /\ synonym_cache'[k] = synonym_cache[k]]_vars
    /\ [](syn.called => syn.word \in DOMAIN firstRet /\ syn.ret = firstRet[syn.word])

\* C3's case: a call for a word was answered from a cache that holds entries
\* for that word with and without a pos hint, and the entries, one of them
\* empty, that lookups of add_human_elements stored after them
C3_Witness ==
    /\ {cache_key(<<"c","a","t">>, NoPos), cache_key(<<"c","a","t">>, SomePos(<<"n">>)),
        cache_key(<<"g","a","r","d","e","n">>, NoPos), cache_key(<<","," ","y","o","u"," ","k","n","o","w">>, NoPos)}
          \subseteq DOMAIN synonym_cache
    /\ syn.called /\ syn.hit /\ syn.word = <<"c","a","t">> /\ syn.ret # <<>>

\* C4: what get_synonyms returns, on a miss and on a hit, has at most 5
\* entries, all different, lower-cased and with no space in them, none of them
\* the word itself whatever its case; it is empty when WordNet has no lemma for
\* the word.
C4_SynonymsWellFormed ==
    syn.called =>
        /\ Len(syn.ret) <= 5
        /\ \A i, j \in 1..Len(syn.ret) : syn.ret[i] = syn.ret[j] => i = j
        /\ \A i \in 1..Len(syn.ret) :
              /\ syn.ret[i] = Lower(syn.ret[i])
              /\ ~InSeq(syn.ret[i], " ")
              /\ syn.ret[i] # Lower(syn.word)
        /\ (WordNetLemmas(syn.word) = <<>> => syn.ret = <<>>)

\* C4's case: a hit for a capitalised word whose lemmas hold the word itself in
\* another case, phrases of two words and more than 5 synonyms
C4_Witness ==
    /\ syn.called /\ syn.hit /\ syn.word = <<"C","a","t">>
    /\ Cardinality(SynonymSet(syn.word)) > 5
    /\ Len(syn.ret) = 5

\* C5: the token paraphrase_sentence emits for a token whose lower-cased form is
\* a stopword is that token, whatever the draws.
C5_StopwordsKept ==
    \A p \in 1..Len(para.main) :
        Lower(para.words[p]) \in stop_words => para.main[p] = para.words[p]

\* C5's case: a stopword that is not passed through for its length and has
\* synonyms was processed with a draw that passes the 0.3 gate
C5_Witness ==
    \E p \in 1..Len(para.main) :
        /\ Lower(para.words[p]) \in stop_words
        /\ ~PassedThrough(para.words[p])
        /\ para.words[p] # Lower(para.words[p])
        /\ SynonymList(para.words[p]) # <<>>
        /\ para.gate[p]

\* C6: vary_sentence_structure merges sentence i with sentence i + 1 only if
\* both, as they are in the input, have fewer than 15 words.
C6_MergeOnlyShort ==
    \A i \in vary.merged :
        /\ Len(Split(vary.sentences[i])) < 15
        /\ Len(Split(vary.sentences[i + 1])) < 15

\* C6's case: a sentence that got a transition phrase was merged with a next
\* sentence of 14 words
C6_Witness ==
    \E i \in vary.merged :
        /\ i \in DOMAIN vary.prepended
        /\ Len(Split(vary.sentences[i + 1])) = 14

\* C7 as stated: add_human_elements returns its text character for character
\* when the text has 20 words or fewer or the 0.8 gate does not pass.
C7_ReturnsTextUnchanged ==
    inj.pc = "done" /\ (Len(Split(inj.text)) <= 20 \/ ~inj.gate) =>
        inj.ret = inj.text

\* C7: when the text has 20 words or fewer or the 0.8 gate does not pass,
\* add_human_elements returns the words of the text, unchanged and in their
\* order, joined by single spaces.
C7_ReturnsWordsUnchanged ==
    inj.pc = "done" /\ (Len(Split(inj.text)) <= 20 \/ ~inj.gate) =>
        inj.ret = Join(<<" ">>, Split(inj.text))

\* C7's case: a text of exactly 20 words with runs of whitespace in it, and a
\* draw that passes the 0.8 gate
C7_Witness ==
    /\ inj.pc = "done" /\ inj.gate
    /\ Len(Split(inj.text)) = 20
    /\ inj.ret # inj.text

\* C8 as stated: add_human_elements inserts a parenthetical only if its text
\* has more than 50 words.
C8_ParentheticalNeedsLongText ==
    inj.pc = "done" /\ HasParenthetical(inj.ret) => Len(Split(inj.text)) > 50

\* C8: add_human_elements inserts a parenthetical only if the word list, with
\* the fragment in it as one entry if one was inserted before, has more than 50
\* entries: the text has more than 50 words, or it has exactly 50 and the
\* fragment was inserted.
C8_ParentheticalNeedsLongList ==
    inj.pc = "done" /\ HasParenthetical(inj.ret) =>
        \/ Len(Split(inj.text)) > 50
        \/ Len(Split(inj.text)) = 50 /\ inj.fragment

\* C8's case: a text of exactly 50 words that got the fragment and then the
\* parenthetical
C8_Witness ==
    /\ inj.pc = "done" /\ inj.fragment
    /\ Len(Split(inj.text)) = 50
    /\ HasParenthetical(inj.ret)

\* C9: vary_sentence_structure prepends no transition phrase to the first
\* sentence, nor to a sentence whose first word is one of the transition words,
\* whatever its case and whatever punctuation follows it.
C9_NoTransitionBeforeTransition ==
    \A i \in DOMAIN vary.prepended :
        i # 1 /\ LeadingWord(vary.sentences[i]) \notin transition_words

\* C10: the entry vary_sentence_structure makes when it prepends a transition
\* phrase is the phrase and then the sentence, with no character of the
\* sentence changed but the case of its first one.
C10_PrependKeepsLaterCharacters ==
    \A i \in DOMAIN vary.prepended :
        LET phrase   == vary.prepended[i].phrase
            result   == vary.prepended[i].result
            sentence == vary.sentences[i]
        IN  /\ Len(result) = Len(phrase) + Len(sentence)
            /\ SubSeq(result, 1, Len(phrase)) = phrase
            /\ Lower(<<result[Len(phrase) + 1]>>) = Lower(<<sentence[1]>>)
            /\ \A k \in 2..Len(sentence) : result[Len(phrase) + k] = sentence[k]

=============================================================================
